---- MODULE Spec2Model ----
(***************************************************************************)
(* Route Sequencing & Metrics Engine of the route planner.                 *)
(*                                                                         *)
(*   - the Sequencer    (src/utils/optimizer.ts, optimizeRoute),           *)
(*   - Annotation Merge (the map over orderedStops in runOptimization),    *)
(*   - the Orchestrator (runOptimization and the handlers that trigger it  *)
(*     in the App component, src/unnamed/part_000).                        *)
(*                                                                         *)
(* Three specifications share the variables: SpecSeq runs optimizeRoute    *)
(* one outer-loop iteration at a time on bounded inputs, SpecMerge applies *)
(* the merge to bounded sequences and annotation lists, and Spec is the    *)
(* App component's state machine with its asynchronous continuations.      *)
(*                                                                         *)
(* Numbers.  Coordinates are integer grid units.  calculateDistance is     *)
(* sqrt(dx*dx + dy*dy) and the Sequencer only ever compares products       *)
(* dist * weight with weight in {0.7, 0.9, 1.0}.  x |-> 100 * x * x is     *)
(* strictly increasing on the non-negative reals, so the model compares    *)
(* (dx*dx + dy*dy) * (10*weight)^2, an integer, instead.  Within the grid  *)
(* of the bounds two such integers that differ do so by a relative gap far *)
(* above the rounding error of a double, and two that are equal come from  *)
(* equal factors or from a zero distance, where the doubles are equal too. *)
(***************************************************************************)
EXTENDS Integers, Sequences, FiniteSets, TLC

\* ------------------------------------------------------------------ bounds
\* Longest input list handed to the Sequencer / to the merge.
MaxStops == 3
\* Latitudes range over 0..MaxCoord.
MaxCoord == 2
\* Longest annotation list handed to the merge.
MaxEtas == 2
\* Stops ever created on the manifest (crypto.randomUUID() ids 1..MaxAdds).
MaxAdds == 2
\* runOptimization invocations that reach the estimator in one behaviour.
MaxRuns == 2

\* ------------------------------------------------------------- data model
\* An optional field that is absent (JavaScript undefined / null).
None == "undefined"

Priorities == {"low", "medium", "high"}

\* Where stops lie: on the meridian lng = 1, one grid unit east of the
\* default depot.
Points == {[lat |-> a, lng |-> 1] : a \in 0..MaxCoord}

\* const DEFAULT_LOCATION, placed at the grid's corner.
DEFAULT_LOCATION == [lat |-> 0, lng |-> 0]

\* What the estimator may say about one stop: eta and traffic.
Insights == {[eta |-> "09:45 AM", traffic |-> "light"],
             [eta |-> "10:30 AM", traffic |-> "heavy"]}

\* interface DeliveryStop; customerName and address are carried along like
\* id by every operation modelled here and are left out.
NewStop(id, priority, coords) ==
  [id |-> id, priority |-> priority, coords |-> coords,
   estimatedTime |-> None, trafficCondition |-> None]

Ids(seq) == [i \in 1..Len(seq) |-> seq[i].id]

IdSet(seq) == {seq[i].id : i \in 1..Len(seq)}

\* ---------------------------------------------------------------- variables
VARIABLES
  \* Sequencer (one call of optimizeRoute)
  start, input, unvisited, route, currentPos, seqPc, lastPick,
  \* Annotation Merge (one merge, then the same merge again)
  mStops, mEtas, mOut, mOut2, mPc,
  \* App component
  stops, aiSummary, lastUpdated, isOptimizing, depotLocation, draggedIndex,
  adding, locating, inflight,
  \* history of the App component's runs
  nAdds, nRuns, lastEvent, lastDone, newestGen, newestStops,
  \* Metrics: the time settings, the clock, and what routeStats returned
  useSystemTime, now, stats, statPc,
  \* parseTime: the clock string given (as what it denotes), and the result
  clock, parsedMinutes, parsePc

seqVars == <<start, input, unvisited, route, currentPos, seqPc, lastPick>>

mergeVars == <<mStops, mEtas, mOut, mOut2, mPc>>

appVars == <<stops, aiSummary, lastUpdated, isOptimizing, depotLocation,
             draggedIndex, adding, locating, inflight,
             nAdds, nRuns, lastEvent, lastDone, newestGen, newestStops>>

statVars == <<useSystemTime, now, stats, statPc, clock, parsedMinutes, parsePc>>

vars == <<seqVars, mergeVars, appVars, statVars>>

\* ---------------------------------------------------------------- Geometry
\* calculateDistance, squared (see "Numbers" above).
\* A coordinate may be the number Infinity (JSON.parse makes it of a literal
\* such as 1e999); it lies beyond every grid value and every distance on
\* the grid.
Infinity == 1000000

\* The distance NaN; no squared distance is negative.
NotANumber == 0 - 1

isFinite(x) == x # Infinity

\* Infinity - Infinity is NaN and NaN stays NaN; Infinity less a finite
\* number is Infinity and its square is Infinity.
calculateDistanceSq(p1, p2) ==
  LET dy == p1.lat - p2.lat
      dx == p1.lng - p2.lng
  IN IF \/ ~isFinite(p1.lat) /\ ~isFinite(p2.lat)
        \/ ~isFinite(p1.lng) /\ ~isFinite(p2.lng)
     THEN NotANumber
     ELSE IF \A x \in {p1.lat, p2.lat, p1.lng, p2.lng} : isFinite(x)
          THEN dx * dx + dy * dy
          ELSE Infinity

\* dist * k for a positive k: NaN and Infinity stay what they are.
scaled(d, k) == IF d = NotANumber \/ d = Infinity THEN d ELSE d * k

\* a < b on distances: false when either is NaN.
closer(a, b) == a # NotANumber /\ b # NotANumber /\ a < b

\* ---------------------------------------------------------------- Sequencer
\* priorityWeight, in tenths.
priorityWeightNoBonus(priority) == 10

priorityWeight(priority) ==
  IF priority = "high" THEN 7 ELSE IF priority = "medium" THEN 9 ELSE 10

\* weightedDist = dist * priorityWeight, as 100 * weightedDist^2.
weightedDist(pos, stop) ==
  scaled(calculateDistanceSq(pos, stop.coords),
         priorityWeight(stop.priority) * priorityWeight(stop.priority))

\* let minDistance = calculateDistance(currentPos, unvisited[0].coords):
\* the first stop of the pool enters with its raw distance (weight 1.0).
firstDist(pos, stop) == scaled(calculateDistanceSq(pos, stop.coords), 10 * 10)

RECURSIVE scan(_, _, _, _, _)
\* The for loop, i = 1 .. unvisited.length - 1 (here 2..Len): a strictly
\* smaller weighted distance replaces the minimum.
scan(pos, pool, i, minDistance, nearestIndex) ==
  IF i > Len(pool) THEN nearestIndex
  ELSE IF closer(weightedDist(pos, pool[i]), minDistance)
       THEN scan(pos, pool, i + 1, weightedDist(pos, pool[i]), i)
       ELSE scan(pos, pool, i + 1, minDistance, nearestIndex)

\* One pass of the while body up to the splice: the index selected.
nearestIndexOf(pos, pool) == scan(pos, pool, 2, firstDist(pos, pool[1]), 1)

spliceFirst(seq, i) == Tail(seq)

spliceNone(seq, i) == seq

\* unvisited.splice(nearestIndex, 1): the pool without that element.
splice(seq, i) == SubSeq(seq, 1, i - 1) \o SubSeq(seq, i + 1, Len(seq))

RECURSIVE visit(_, _, _)
visit(pos, pool, out) ==
  IF Len(pool) = 0 THEN out
  ELSE LET k == nearestIndexOf(pos, pool)
       IN visit(pool[k].coords, splice(pool, k), Append(out, pool[k]))

\* optimizeRoute as a function of its arguments.
optimizeRoute(from, list) == IF Len(list) = 0 THEN <<>> ELSE visit(from, list, <<>>)

\* ---------------------------------------------------------- Annotation Merge
RECURSIVE findFrom(_, _, _)
findFrom(etas, id, i) ==
  IF i > Len(etas) THEN 0
  ELSE IF etas[i].id = id THEN i ELSE findFrom(etas, id, i + 1)

\* result.etas.find(e => e.id === stop.id): the index of the first entry with
\* that id, 0 when there is none.
find(etas, id) == findFrom(etas, id, 1)

withInsightKeepingOld(stop, etas) ==
  LET k == find(etas, stop.id)
  IN [stop EXCEPT !.estimatedTime = IF k = 0 THEN @ ELSE etas[k].eta,
                  !.trafficCondition = IF k = 0 THEN @ ELSE etas[k].traffic]

\* { ...stop, estimatedTime: insight?.eta, trafficCondition: insight?.traffic }
withInsight(stop, etas) ==
  LET k == find(etas, stop.id)
  IN [stop EXCEPT !.estimatedTime = IF k = 0 THEN None ELSE etas[k].eta,
                  !.trafficCondition = IF k = 0 THEN None ELSE etas[k].traffic]

\* orderedStops.map(stop => ...): every stop of the sequence, in order.
mergeInsightsReversed(orderedStops, etas) ==
  [i \in 1..Len(orderedStops) |->
     withInsight(orderedStops[Len(orderedStops) + 1 - i], etas)]

mergeInsightsFiltered(orderedStops, etas) ==
  SelectSeq([i \in 1..Len(orderedStops) |-> withInsight(orderedStops[i], etas)],
            LAMBDA s : s.estimatedTime # None)

mergeInsights(orderedStops, etas) ==
  [i \in 1..Len(orderedStops) |-> withInsight(orderedStops[i], etas)]

\* ======================================================================
\* SpecSeq: one call optimizeRoute(start, input), an outer-loop iteration
\* per step.
\* ======================================================================
NoPick == [pool |-> <<>>, pos |-> DEFAULT_LOCATION, index |-> 0]

SeqIdle ==
  /\ start = DEFAULT_LOCATION /\ input = <<>> /\ unvisited = <<>>
  /\ route = <<>> /\ currentPos = DEFAULT_LOCATION /\ seqPc = "off"
  /\ lastPick = NoPick

\* Origins: the default depot, off the meridian, and a point on it.
Starts == {DEFAULT_LOCATION, [lat |-> 1, lng |-> 1]}

\* An input list: the stop at position i has identity i (identities unique),
\* priority f[i][1] and coordinates f[i][2].
SeqInput(n, f) == [i \in 1..n |-> NewStop(i, f[i][1], f[i][2])]

\* The same list after an earlier round: the stops at odd positions carry
\* the annotation a.
SeqInputAnnotated(n, f, a) ==
  [i \in 1..n |->
     IF i % 2 = 1
     THEN [SeqInput(n, f)[i] EXCEPT !.estimatedTime = a.eta,
                                    !.trafficCondition = a.traffic]
     ELSE SeqInput(n, f)[i]]

\* if (stops.length === 0) return [];
SeqEmpty ==
  /\ seqPc = "start" /\ Len(input) = 0
  /\ route' = <<>> /\ seqPc' = "done"
  /\ UNCHANGED <<start, input, unvisited, currentPos, lastPick>>
  /\ UNCHANGED <<mergeVars, appVars, statVars>>

\* const unvisited = [...stops]; const route = []; let currentPos = start;
SeqBegin ==
  /\ seqPc = "start" /\ Len(input) > 0
  /\ unvisited' = input /\ route' = <<>> /\ currentPos' = start
  /\ seqPc' = "loop"
  /\ UNCHANGED <<start, input, lastPick>>
  /\ UNCHANGED <<mergeVars, appVars, statVars>>

callerListAliased(list, i) == SubSeq(list, 1, i - 1) \o SubSeq(list, i + 1, Len(list))

\* What unvisited.splice(nearestIndex, 1) does to the caller's array: nothing,
\* unvisited being the copy [...stops].
callerList(list, i) == list

\* One iteration of while (unvisited.length > 0).
SeqStep ==
  /\ seqPc = "loop" /\ Len(unvisited) > 0
  /\ LET k == nearestIndexOf(currentPos, unvisited)
     IN /\ unvisited' = splice(unvisited, k)
        /\ input' = callerList(input, k)
        /\ route' = Append(route, unvisited[k])
        /\ currentPos' = unvisited[k].coords
        /\ lastPick' = [pool |-> unvisited, pos |-> currentPos, index |-> k]
  /\ UNCHANGED <<start, seqPc>>
  /\ UNCHANGED <<mergeVars, appVars, statVars>>

\* return route;
SeqReturn ==
  /\ seqPc = "loop" /\ Len(unvisited) = 0
  /\ seqPc' = "done"
  /\ UNCHANGED <<start, input, unvisited, route, currentPos, lastPick>>
  /\ UNCHANGED <<mergeVars, appVars, statVars>>

\* ======================================================================
\* SpecMerge: the merge applied to a sequence, then again to its result.
\* ======================================================================
MergeIdle ==
  /\ mStops = <<>> /\ mEtas = <<>> /\ mOut = <<>> /\ mOut2 = <<>> /\ mPc = "off"

Annotated(stop, a) ==
  [stop EXCEPT !.estimatedTime = a.eta, !.trafficCondition = a.traffic]

NoInsight == [eta |-> None, traffic |-> None]

\* A sequence to merge into: identities unique, the annotations f[i] of an
\* earlier round present or absent.
MergeStops(n, f) ==
  [i \in 1..n |-> Annotated(NewStop(i, "medium", DEFAULT_LOCATION), f[i])]

\* Annotation lists: any order, duplicate ids, an id (MaxStops + 1) that no
\* stop has.
EtaEntries ==
  {[id |-> i, eta |-> a.eta, traffic |-> a.traffic] :
     i \in 1..(MaxStops + 1), a \in Insights}

MergeOnce ==
  /\ mPc = "start"
  /\ mOut' = mergeInsights(mStops, mEtas)
  /\ mPc' = "merged"
  /\ UNCHANGED <<mStops, mEtas, mOut2>>
  /\ UNCHANGED <<seqVars, appVars, statVars>>

MergeAgain ==
  /\ mPc = "merged"
  /\ mOut2' = mergeInsights(mOut, mEtas)
  /\ mPc' = "again"
  /\ UNCHANGED <<mStops, mEtas, mOut>>
  /\ UNCHANGED <<seqVars, appVars, statVars>>

\* ======================================================================
\* Spec: the App component.  Each handler is one action; a handler that
\* awaits (handleAddStop, the geolocation callback, runOptimization) is one
\* action up to the await and one per way the awaited call can end, and
\* keeps what its closure captured before the await.
\* ======================================================================
NoAdd == [active |-> FALSE, stops |-> <<>>, priority |-> "medium"]

NoLocate == [active |-> FALSE, stops |-> <<>>]

NoDone == [gen |-> 0, outcome |-> "none", manual |-> FALSE,
           trigger |-> "none", targetStops |-> <<>>,
           targetDepot |-> DEFAULT_LOCATION, promise |-> "none"]

AppIdle ==
  /\ stops = <<>> /\ aiSummary = None /\ lastUpdated = None
  /\ isOptimizing = FALSE /\ depotLocation = DEFAULT_LOCATION
  /\ draggedIndex = 0 /\ adding = NoAdd
  /\ locating = NoLocate /\ inflight = {}
  /\ nAdds = 0 /\ nRuns = 0 /\ lastEvent = "none" /\ lastDone = NoDone
  /\ newestGen = 0 /\ newestStops = <<>>

\* What the priority selector and parseAddress may give a new stop.
AppPriorities == {"medium"}

AppPoints == {[lat |-> 0, lng |-> 1], [lat |-> 1, lng |-> 1]}

\* Where geolocation may put the depot.
GeoPoints == {[lat |-> 1, lng |-> 0]}

\* The insight a parsed estimator response carries.
AppInsight == [eta |-> "09:45 AM", traffic |-> "light"]

\* ---- the estimation collaborator (analyzeRoute)
\* A parsed response: one entry per stop of a subset of the route, in route
\* order, all with the same insight.
replyEtas(orderedStops, covered, a) ==
  LET picked == SelectSeq(orderedStops, LAMBDA s : s.id \in covered)
  IN [i \in 1..Len(picked) |->
        [id |-> picked[i].id, eta |-> a.eta, traffic |-> a.traffic]]

\* The catch branch of analyzeRoute (response text that is no JSON): an entry
\* for every stop, eta "~<10 + floor(i/2)>:<00|30> AM" and traffic by index
\* (i counted from 0; the table covers the routes of the bounds).
fallbackEta(i) ==
  IF i = 0 THEN "~10:00 AM" ELSE IF i = 1 THEN "~10:30 AM"
  ELSE IF i = 2 THEN "~11:00 AM" ELSE IF i = 3 THEN "~11:30 AM" ELSE "~12:00 AM"

fallbackTraffic(i) ==
  IF i % 3 = 0 THEN "heavy" ELSE IF i % 2 = 0 THEN "moderate" ELSE "light"

fallbackEtas(orderedStops) ==
  [i \in 1..Len(orderedStops) |->
     [id |-> orderedStops[i].id, eta |-> fallbackEta(i - 1),
      traffic |-> fallbackTraffic(i - 1)]]

Summary == "Route analysis completed."

\* ---- runOptimization up to its await
runOptimizationStartUnguarded(hasManual, manualStops, targetDepot, trigger) ==
  LET targetStops == IF hasManual THEN manualStops ELSE stops
  IN /\ isOptimizing' = TRUE
     /\ nRuns' = nRuns + 1
     /\ inflight' = inflight \cup
          {[gen |-> nRuns + 1, manual |-> hasManual, trigger |-> trigger,
            targetStops |-> targetStops, targetDepot |-> targetDepot,
            orderedStops |-> IF hasManual THEN manualStops
                             ELSE optimizeRoute(targetDepot, targetStops)]}

\* The part of runOptimization before "await analyzeRoute": nothing for an
\* empty target, otherwise a new invocation in flight.  hasManual says whether
\* manualStops was passed, trigger which handler made the call.
runOptimizationStart(hasManual, manualStops, targetDepot, trigger) ==
  LET targetStops == IF hasManual THEN manualStops ELSE stops
  IN IF Len(targetStops) = 0
     THEN UNCHANGED <<isOptimizing, inflight, nRuns>>
     ELSE /\ isOptimizing' = TRUE
          /\ nRuns' = nRuns + 1
          /\ inflight' = inflight \cup
               {[gen |-> nRuns + 1, manual |-> hasManual, trigger |-> trigger,
                 targetStops |-> targetStops, targetDepot |-> targetDepot,
                 orderedStops |-> IF hasManual THEN manualStops
                                  ELSE optimizeRoute(targetDepot, targetStops)]}

\* A handler that would start a run is taken only while runs are left.
CanRun(targetStops) == Len(targetStops) = 0 \/ nRuns < MaxRuns

\* ---- handleAddStop
AddStopSubmit(p) ==
  /\ ~adding.active /\ nAdds < MaxAdds
  /\ adding' = [active |-> TRUE, stops |-> stops, priority |-> p]
  /\ UNCHANGED <<stops, aiSummary, lastUpdated, isOptimizing, depotLocation,
                 draggedIndex, locating, inflight, nAdds, nRuns,
                 lastEvent, lastDone, newestGen, newestStops>>
  /\ UNCHANGED <<seqVars, mergeVars, statVars>>

\* parseAddress resolved: the stop is appended to the list the handler captured.
AddStopParsed(c) ==
  /\ adding.active /\ nRuns < MaxRuns
  /\ LET updatedStops == Append(adding.stops, NewStop(nAdds + 1, adding.priority, c))
     IN /\ stops' = updatedStops
        /\ aiSummary' = None
        /\ runOptimizationStart(TRUE, updatedStops, depotLocation, "add")
  /\ nAdds' = nAdds + 1
  /\ adding' = NoAdd
  /\ lastEvent' = "user"
  /\ UNCHANGED <<lastUpdated, depotLocation, draggedIndex, locating,
                 lastDone, newestGen, newestStops>>
  /\ UNCHANGED <<seqVars, mergeVars, statVars>>

\* parseAddress rejected: catch logs, finally clears isLoading.
AddStopFailed ==
  /\ adding.active
  /\ adding' = NoAdd
  /\ UNCHANGED <<stops, aiSummary, lastUpdated, isOptimizing, depotLocation,
                 draggedIndex, locating, inflight, nAdds, nRuns,
                 lastEvent, lastDone, newestGen, newestStops>>
  /\ UNCHANGED <<seqVars, mergeVars, statVars>>

\* ---- the customer directory's add button
AddFromDirectory(c) ==
  /\ nAdds < MaxAdds /\ nRuns < MaxRuns
  /\ LET updatedStops == Append(stops, NewStop(nAdds + 1, "medium", c))
     IN /\ stops' = updatedStops
        /\ runOptimizationStart(TRUE, updatedStops, depotLocation, "add")
  /\ nAdds' = nAdds + 1
  /\ lastEvent' = "user"
  /\ UNCHANGED <<aiSummary, lastUpdated, depotLocation, draggedIndex, adding,
                 locating, lastDone, newestGen, newestStops>>
  /\ UNCHANGED <<seqVars, mergeVars, statVars>>

\* ---- loadSavedRoute
loadSavedRoute(routeStops) ==
  /\ nRuns < MaxRuns /\ stops # routeStops
  /\ stops' = routeStops
  /\ runOptimizationStart(TRUE, routeStops, depotLocation, "add")
  /\ nAdds' = IF nAdds < Len(routeStops) THEN Len(routeStops) ELSE nAdds
  /\ lastEvent' = "user"
  /\ UNCHANGED <<aiSummary, lastUpdated, depotLocation, draggedIndex, adding,
                 locating, lastDone, newestGen, newestStops>>
  /\ UNCHANGED <<seqVars, mergeVars, statVars>>

\* ---- runOptimization called as such: runOptimization() when manual is
\* false, runOptimization(stops) when it is true, whatever the list holds.
RunCall(manual) ==
  /\ nRuns < MaxRuns
  /\ runOptimizationStart(manual, stops, depotLocation, "call")
  /\ lastEvent' = "call"
  /\ UNCHANGED <<stops, aiSummary, lastUpdated, depotLocation, draggedIndex,
                 adding, locating, nAdds, lastDone, newestGen, newestStops>>
  /\ UNCHANGED <<seqVars, mergeVars, statVars>>

\* ---- the refresh button: runOptimization()
Refresh ==
  /\ Len(stops) >= 1 /\ ~isOptimizing /\ nRuns < MaxRuns
  /\ runOptimizationStart(FALSE, <<>>, depotLocation, "refresh")
  /\ UNCHANGED <<stops, aiSummary, lastUpdated, depotLocation, draggedIndex,
                 adding, locating, nAdds, lastEvent, lastDone,
                 newestGen, newestStops>>
  /\ UNCHANGED <<seqVars, mergeVars, statVars>>

\* ---- drag and drop
DragStart(i) ==
  /\ i \in 1..Len(stops) /\ draggedIndex # i
  /\ draggedIndex' = i
  /\ UNCHANGED <<stops, aiSummary, lastUpdated, isOptimizing, depotLocation,
                 adding, locating, inflight, nAdds, nRuns,
                 lastEvent, lastDone, newestGen, newestStops>>
  /\ UNCHANGED <<seqVars, mergeVars, statVars>>

\* updatedStops.splice(draggedIndex, 1); updatedStops.splice(index, 0, movedItem)
moved(list, from, to) ==
  LET rest == splice(list, from)
  IN SubSeq(rest, 1, to - 1) \o <<list[from]>> \o SubSeq(rest, to, Len(rest))

\* handleDrop(index) on a rendered stop; the dragged index still names a stop.
Drop(index) ==
  /\ index \in 1..Len(stops)
  /\ draggedIndex # 0 /\ draggedIndex # index /\ draggedIndex <= Len(stops)
  /\ nRuns < MaxRuns
  /\ stops' = moved(stops, draggedIndex, index)
  /\ draggedIndex' = 0
  /\ runOptimizationStart(TRUE, moved(stops, draggedIndex, index),
                          depotLocation, "drop")
  /\ lastEvent' = "user"
  /\ UNCHANGED <<aiSummary, lastUpdated, depotLocation, adding,
                 locating, nAdds, lastDone, newestGen, newestStops>>
  /\ UNCHANGED <<seqVars, mergeVars, statVars>>

\* ---- remove a stop, flush the route, dismiss the summary
RemoveStop(id) ==
  /\ id \in IdSet(stops)
  /\ stops' = SelectSeq(stops, LAMBDA s : s.id # id)
  /\ lastEvent' = "remove"
  /\ UNCHANGED <<aiSummary, lastUpdated, isOptimizing, depotLocation,
                 draggedIndex, adding, locating, inflight, nAdds,
                 nRuns, lastDone, newestGen, newestStops>>
  /\ UNCHANGED <<seqVars, mergeVars, statVars>>

FlushRoute ==
  /\ Len(stops) > 0
  /\ stops' = <<>>
  /\ lastEvent' = "user"
  /\ UNCHANGED <<aiSummary, lastUpdated, isOptimizing, depotLocation,
                 draggedIndex, adding, locating, inflight, nAdds,
                 nRuns, lastDone, newestGen, newestStops>>
  /\ UNCHANGED <<seqVars, mergeVars, statVars>>

DismissSummary ==
  /\ aiSummary # None
  /\ aiSummary' = None
  /\ UNCHANGED <<stops, lastUpdated, isOptimizing, depotLocation, draggedIndex,
                 adding, locating, inflight, nAdds, nRuns,
                 lastEvent, lastDone, newestGen, newestStops>>
  /\ UNCHANGED <<seqVars, mergeVars, statVars>>

\* ---- "start from my location"
LocateClick ==
  /\ ~locating.active
  /\ locating' = [active |-> TRUE, stops |-> stops]
  /\ UNCHANGED <<stops, aiSummary, lastUpdated, isOptimizing, depotLocation,
                 draggedIndex, adding, inflight, nAdds, nRuns,
                 lastEvent, lastDone, newestGen, newestStops>>
  /\ UNCHANGED <<seqVars, mergeVars, statVars>>

\* The position callback: the depot moves and, if the captured list is not
\* empty, runOptimization(stops, position) runs on the captured list.
LocateFound(p) ==
  /\ locating.active /\ CanRun(locating.stops)
  /\ depotLocation' = p
  /\ locating' = NoLocate
  /\ runOptimizationStart(TRUE, locating.stops, p, "locate")
  /\ UNCHANGED <<stops, aiSummary, lastUpdated, draggedIndex, adding, nAdds, lastEvent, lastDone, newestGen, newestStops>>
  /\ UNCHANGED <<seqVars, mergeVars, statVars>>

LocateError ==
  /\ locating.active
  /\ locating' = NoLocate
  /\ UNCHANGED <<stops, aiSummary, lastUpdated, isOptimizing, depotLocation,
                 draggedIndex, adding, inflight, nAdds, nRuns,
                 lastEvent, lastDone, newestGen, newestStops>>
  /\ UNCHANGED <<seqVars, mergeVars, statVars>>

\* ---- runOptimization after its await
CompletedRetrying(inv, outcome, written) ==
  /\ inflight' = IF outcome = "failed" THEN inflight ELSE inflight \ {inv}
  /\ lastEvent' = "complete"
  /\ lastDone' = [gen |-> inv.gen, outcome |-> outcome, manual |-> inv.manual,
                  trigger |-> inv.trigger,
                  targetStops |-> inv.targetStops,
                  targetDepot |-> inv.targetDepot, promise |-> "fulfilled"]
  /\ newestGen' = IF inv.gen >= newestGen THEN inv.gen ELSE newestGen
  /\ newestStops' = IF inv.gen >= newestGen THEN written ELSE newestStops

\* What an invocation's completion leaves in the history variables; its one
\* estimator call is over and none follows.
Completed(inv, outcome, written) ==
  /\ inflight' = inflight \ {inv}
  /\ lastEvent' = "complete"
  /\ lastDone' = [gen |-> inv.gen, outcome |-> outcome, manual |-> inv.manual,
                  trigger |-> inv.trigger,
                  targetStops |-> inv.targetStops,
                  targetDepot |-> inv.targetDepot, promise |-> "fulfilled"]
  /\ newestGen' = IF inv.gen >= newestGen THEN inv.gen ELSE newestGen
  /\ newestStops' = IF inv.gen >= newestGen THEN written ELSE newestStops

applyResultStillOptimizing(inv, etas, outcome) ==
  /\ stops' = mergeInsights(inv.orderedStops, etas)
  /\ aiSummary' = Summary
  /\ lastUpdated' = "Date"
  /\ UNCHANGED isOptimizing
  /\ Completed(inv, outcome, mergeInsights(inv.orderedStops, etas))

\* try and finally: the estimator's answer is merged and shown.  outcome
\* tells a parsed response ("ok") from analyzeRoute's fallback ("malformed").
applyResult(inv, etas, outcome) ==
  /\ stops' = mergeInsights(inv.orderedStops, etas)
  /\ aiSummary' = Summary
  /\ lastUpdated' = "Date"
  /\ isOptimizing' = FALSE
  /\ Completed(inv, outcome, mergeInsights(inv.orderedStops, etas))

EstimatorResolved(inv, covered, a) ==
  /\ inv \in inflight
  /\ applyResult(inv, replyEtas(inv.orderedStops, covered, a), "ok")
  /\ UNCHANGED <<depotLocation, draggedIndex, adding, locating,
                 nAdds, nRuns>>
  /\ UNCHANGED <<seqVars, mergeVars, statVars>>

EstimatorUnparseable(inv) ==
  /\ inv \in inflight
  /\ applyResult(inv, fallbackEtas(inv.orderedStops), "malformed")
  /\ UNCHANGED <<depotLocation, draggedIndex, adding, locating,
                 nAdds, nRuns>>
  /\ UNCHANGED <<seqVars, mergeVars, statVars>>

onErrorKeepVisible(orderedStops) == stops

\* catch (error) { setStops(orderedStops); }: the list that is shown.
onError(orderedStops) == orderedStops

\* catch and finally: the estimator call rejected.
EstimatorRejected(inv) ==
  /\ inv \in inflight
  /\ stops' = onError(inv.orderedStops)
  /\ isOptimizing' = FALSE
  /\ Completed(inv, "failed", onError(inv.orderedStops))
  /\ UNCHANGED <<aiSummary, lastUpdated, depotLocation, draggedIndex,
                 adding, locating, nAdds, nRuns>>
  /\ UNCHANGED <<seqVars, mergeVars, statVars>>

\* ---------------------------------------------------------------- Metrics
\* Text is a sequence of one-character strings, so that split and Number can
\* be computed.  Chars gives the characters of the estimatedTime strings the
\* stops of the model carry.
Chars(s) ==
  CASE s = "09:45 AM" -> <<"0", "9", ":", "4", "5", " ", "A", "M">>
    [] s = "10:30 AM" -> <<"1", "0", ":", "3", "0", " ", "A", "M">>
    [] s = "11:30 AM" -> <<"1", "1", ":", "3", "0", " ", "A", "M">>
    [] s = "12:15 AM" -> <<"1", "2", ":", "1", "5", " ", "A", "M">>
    [] s = "12:15 PM" -> <<"1", "2", ":", "1", "5", " ", "P", "M">>
    [] s = "1:05 PM" -> <<"1", ":", "0", "5", " ", "P", "M">>
    [] s = "08:15 AM" -> <<"0", "8", ":", "1", "5", " ", "A", "M">>
    [] s = "~10:00 AM" -> <<"~", "1", "0", ":", "0", "0", " ", "A", "M">>
    [] s = "~10:30 AM" -> <<"~", "1", "0", ":", "3", "0", " ", "A", "M">>
    [] s = "~11:00 AM" -> <<"~", "1", "1", ":", "0", "0", " ", "A", "M">>
    [] s = "~11:30 AM" -> <<"~", "1", "1", ":", "3", "0", " ", "A", "M">>
    [] s = "~12:00 AM" -> <<"~", "1", "2", ":", "0", "0", " ", "A", "M">>
    [] s = "10:30" -> <<"1", "0", ":", "3", "0">>
    [] s = "soon" -> <<"s", "o", "o", "n">>

DigitChars == <<"0", "1", "2", "3", "4", "5", "6", "7", "8", "9">>

isDigit(c) == \E d \in 1..Len(DigitChars) : DigitChars[d] = c

digitValue(c) == (CHOOSE d \in 1..Len(DigitChars) : DigitChars[d] = c) - 1

\* A JavaScript number: an integer, or NaN.
Num(v) == [nan |-> FALSE, v |-> v]

NaN == [nan |-> TRUE, v |-> 0]

plus(a, b) == IF a.nan \/ b.nan THEN NaN ELSE Num(a.v + b.v)

minus(a, b) == IF a.nan \/ b.nan THEN NaN ELSE Num(a.v - b.v)

times(a, b) == IF a.nan \/ b.nan THEN NaN ELSE Num(a.v * b.v)

\* a < b and a === b: false when an operand is NaN.
lessThanOrEqual(a, b) == ~a.nan /\ ~b.nan /\ a.v <= b.v

lessThan(a, b) == ~a.nan /\ ~b.nan /\ a.v < b.v

strictEquals(a, b) == ~a.nan /\ ~b.nan /\ a.v = b.v

\* Math.floor(a / 60)
floorDiv60(a) == IF a.nan THEN NaN ELSE Num(a.v \div 60)

\* a % 60: the remainder has the sign of the dividend.
mod60(a) ==
  IF a.nan THEN NaN
  ELSE IF a.v >= 0 THEN Num(a.v % 60) ELSE Num(-((-a.v) % 60))

\* str.split(sep) for a one-character separator.
RECURSIVE split(_, _)
split(str, sep) ==
  IF \A i \in 1..Len(str) : str[i] # sep
  THEN <<str>>
  ELSE LET i == CHOOSE k \in 1..Len(str) :
                  str[k] = sep /\ \A j \in 1..(k - 1) : str[j] # sep
       IN <<SubSeq(str, 1, i - 1)>> \o split(SubSeq(str, i + 1, Len(str)), sep)

RECURSIVE decimal(_)
decimal(str) ==
  IF str = <<>> THEN 0
  ELSE 10 * decimal(SubSeq(str, 1, Len(str) - 1)) + digitValue(str[Len(str)])

\* Number(str) for text without blanks, signs or points: 0 for the empty
\* string, the value of a run of digits, NaN for anything else.
Number(str) ==
  IF \A i \in 1..Len(str) : isDigit(str[i]) THEN Num(decimal(str)) ELSE NaN

\* n.toString()
RECURSIVE toString(_)
toString(n) ==
  IF n < 10 THEN <<DigitChars[n + 1]>>
  ELSE toString(n \div 10) \o <<DigitChars[(n % 10) + 1]>>

\* str.padStart(2, '0')
padStart2(str) == IF Len(str) < 2 THEN <<"0">> \o str ELSE str

DEFAULT_DEPOT_START_TIME == <<"0", "9", ":", "0", "0", " ", "A", "M">>

\* getCurrentTimeFormatted for a clock reading [h |-> 0..23, m |-> 0..59].
getCurrentTimeFormatted(reading) ==
  LET minutes == padStart2(toString(reading.m))
      ampm == IF reading.h >= 12 THEN <<"P", "M">> ELSE <<"A", "M">>
      hours == IF reading.h % 12 # 0 THEN reading.h % 12 ELSE 12
  IN toString(hours) \o <<":">> \o minutes \o <<" ">> \o ampm

parseTimeNoModifier(timeStr) ==
  LET time == split(timeStr, " ")[1]
      nums == split(time, ":")
      hours == Number(nums[1])
      minutes == IF Len(nums) >= 2 THEN Number(nums[2]) ELSE NaN
  IN plus(times(hours, Num(60)), minutes)

\* parseTime.  A missing second part of a split is undefined: as the
\* modifier it equals neither 'PM' nor 'AM', as the minutes it makes the
\* sum NaN.
parseTime(timeStr) ==
  LET parts == split(timeStr, " ")
      time == parts[1]
      isPM == Len(parts) >= 2 /\ parts[2] = <<"P", "M">>
      isAM == Len(parts) >= 2 /\ parts[2] = <<"A", "M">>
      nums == split(time, ":")
      hours0 == Number(nums[1])
      minutes == IF Len(nums) >= 2 THEN Number(nums[2]) ELSE NaN
      hours1 == IF isPM /\ lessThan(hours0, Num(12))
                THEN plus(hours0, Num(12)) ELSE hours0
      hours2 == IF isAM /\ strictEquals(hours1, Num(12)) THEN Num(0) ELSE hours1
  IN plus(times(hours2, Num(60)), minutes)

\* The duration text `${h}h ${m}m`, and the placeholder "...".
HoursMinutes(h, m) == [text |-> "h m", h |-> h, m |-> m]

Unavailable == [text |-> "...", h |-> NaN, m |-> NaN]

\* totalDist: the legs' squared lengths in route order; the distance shown
\* is 111 times the sum of their square roots.
RECURSIVE legsFrom(_, _, _)
legsFrom(list, i, current) ==
  IF i > Len(list) THEN <<>>
  ELSE <<calculateDistanceSq(current, list[i].coords)>>
         \o legsFrom(list, i + 1, list[i].coords)

lastAnnotatedStop(list) ==
  IF \E i \in 1..Len(list) : list[i].estimatedTime # None
  THEN list[CHOOSE i \in 1..Len(list) :
              /\ list[i].estimatedTime # None
              /\ \A j \in (i + 1)..Len(list) : list[j].estimatedTime = None]
  ELSE list[Len(list)]

\* const lastStop = stops[stops.length - 1]
lastStopOf(list) == list[Len(list)]

\* routeStats.  No call inside its try block throws for a string, so the
\* catch branch is never taken.
routeStats ==
  IF Len(stops) = 0
  THEN [distance |-> <<>>, duration |-> HoursMinutes(Num(0), Num(0))]
  ELSE LET totalDist == legsFrom(stops, 1, depotLocation)
           lastStop == lastStopOf(stops)
       IN IF lastStop.estimatedTime # None
          THEN LET startTimeStr == IF useSystemTime /\ lastUpdated # None
                                   THEN getCurrentTimeFormatted(now)
                                   ELSE DEFAULT_DEPOT_START_TIME
                   startMinutes == parseTime(startTimeStr)
                   endMinutes == parseTime(Chars(lastStop.estimatedTime))
                   diff == minus(endMinutes, startMinutes)
               IN [distance |-> totalDist,
                   duration |-> HoursMinutes(floorDiv60(diff), mod60(diff))]
          ELSE [distance |-> totalDist, duration |-> Unavailable]

NoStats == [distance |-> <<>>, duration |-> Unavailable]

Midnight == [h |-> 0, m |-> 0]

NoClock == [h |-> 12, m |-> 0, pm |-> FALSE, padded |-> FALSE]

ParseIdle == clock = NoClock /\ parsedMinutes = NaN /\ parsePc = "off"

StatIdle ==
  /\ useSystemTime = FALSE /\ now = Midnight /\ stats = NoStats /\ statPc = "off"
  /\ ParseIdle

\* The 12-hour clock string "H:MM AM" / "H:MM PM" of a clock, the hour
\* written with two digits when padded (as in "09:00 AM").
ClockString(c) ==
  (IF c.padded THEN padStart2(toString(c.h)) ELSE toString(c.h))
    \o <<":">> \o padStart2(toString(c.m)) \o <<" ">>
    \o (IF c.pm THEN <<"P", "M">> ELSE <<"A", "M">>)

\* parseTime is applied to the clock's string.
ParseCall ==
  /\ parsePc = "start"
  /\ parsedMinutes' = parseTime(ClockString(clock))
  /\ parsePc' = "done"
  /\ UNCHANGED <<useSystemTime, now, stats, statPc, clock>>
  /\ UNCHANGED <<seqVars, mergeVars, appVars>>

\* The route summary is rendered: routeStats is evaluated on the state.
StatsRender ==
  /\ statPc = "start"
  /\ stats' = routeStats
  /\ statPc' = "done"
  /\ UNCHANGED <<useSystemTime, now, clock, parsedMinutes, parsePc>>
  /\ UNCHANGED <<seqVars, mergeVars, appVars>>

\* ======================================================================
\* The specifications
\* ======================================================================
\* The mount effect restores the manifest an earlier session left in
\* localStorage: none, or two stops saved far one first.
RestoredManifests ==
  {<<>>,
   <<NewStop(1, "medium", [lat |-> 1, lng |-> 1]),
     NewStop(2, "medium", [lat |-> 0, lng |-> 1])>>}

AppInit ==
  /\ stops \in RestoredManifests /\ aiSummary = None /\ lastUpdated = None
  /\ isOptimizing = FALSE /\ depotLocation = DEFAULT_LOCATION
  /\ draggedIndex = 0 /\ adding = NoAdd
  /\ locating = NoLocate /\ inflight = {}
  /\ nAdds = Len(stops) /\ nRuns = 0 /\ lastEvent = "none" /\ lastDone = NoDone
  /\ newestGen = 0 /\ newestStops = <<>>

Init == SeqIdle /\ MergeIdle /\ AppInit /\ StatIdle

Next ==
  \/ \E p \in AppPriorities : AddStopSubmit(p)
  \/ \E c \in AppPoints : AddStopParsed(c)
  \/ AddStopFailed
  \/ Refresh
  \/ \E i \in 1..MaxAdds : DragStart(i)
  \/ \E i \in 1..MaxAdds : Drop(i)
  \/ \E id \in 1..MaxAdds : RemoveStop(id)
  \/ FlushRoute
  \/ DismissSummary
  \/ LocateClick
  \/ \E p \in GeoPoints : LocateFound(p)
  \/ LocateError
  \/ \E inv \in inflight : \E covered \in SUBSET IdSet(inv.orderedStops) :
       EstimatorResolved(inv, covered, AppInsight)
  \/ \E inv \in inflight : EstimatorUnparseable(inv)
  \/ \E inv \in inflight : EstimatorRejected(inv)

Spec == Init /\ [][Next]_vars

\* runOptimization called on lists of every length, the empty one included,
\* with and without a summary left by an earlier round.
RunInit ==
  /\ SeqIdle /\ MergeIdle /\ StatIdle
  /\ \E n \in 0..MaxAdds : \E c \in [1..n -> AppPoints] :
       stops = [i \in 1..n |-> NewStop(i, "medium", c[i])]
  /\ aiSummary \in {None, Summary} /\ lastUpdated \in {None, "Date"}
  /\ isOptimizing = FALSE /\ depotLocation = DEFAULT_LOCATION
  /\ draggedIndex = 0 /\ adding = NoAdd
  /\ locating = NoLocate /\ inflight = {}
  /\ nAdds = Len(stops) /\ nRuns = 0 /\ lastEvent = "none" /\ lastDone = NoDone
  /\ newestGen = 0 /\ newestStops = <<>>

RunNext ==
  \/ \E manual \in BOOLEAN : RunCall(manual)
  \/ FlushRoute
  \/ \E inv \in inflight : \E covered \in SUBSET IdSet(inv.orderedStops) :
       EstimatorResolved(inv, covered, AppInsight)
  \/ \E inv \in inflight : EstimatorUnparseable(inv)
  \/ \E inv \in inflight : EstimatorRejected(inv)

SpecRun == RunInit /\ [][RunNext]_vars

\* Where stops come from: parseAddress's answer as JSON.parse returned it, a
\* customer or a route saved earlier in the session, the restored manifest.
IntakePoints == {[lat |-> 1, lng |-> 1], [lat |-> Infinity, lng |-> 1]}

IntakeRoutes ==
  {<<NewStop(1, "medium", [lat |-> 0, lng |-> 1]),
     NewStop(2, "medium", [lat |-> Infinity, lng |-> 1])>>}

\* JSON.stringify writes Infinity as null, so what the mount effect restores
\* holds finite coordinates.
IntakeManifests ==
  {<<>>, <<NewStop(1, "medium", [lat |-> 0, lng |-> 1])>>}

IntakeInit ==
  /\ SeqIdle /\ MergeIdle /\ StatIdle
  /\ stops \in IntakeManifests /\ aiSummary = None /\ lastUpdated = None
  /\ isOptimizing = FALSE /\ depotLocation = DEFAULT_LOCATION
  /\ draggedIndex = 0 /\ adding = NoAdd
  /\ locating = NoLocate /\ inflight = {}
  /\ nAdds = Len(stops) /\ nRuns = 0 /\ lastEvent = "none" /\ lastDone = NoDone
  /\ newestGen = 0 /\ newestStops = <<>>

IntakeNext ==
  \/ \E p \in AppPriorities : AddStopSubmit(p)
  \/ \E c \in IntakePoints : AddStopParsed(c)
  \/ AddStopFailed
  \/ \E c \in IntakePoints : AddFromDirectory(c)
  \/ \E r \in IntakeRoutes : loadSavedRoute(r)
  \/ Refresh
  \/ \E inv \in inflight : \E covered \in SUBSET IdSet(inv.orderedStops) :
       EstimatorResolved(inv, covered, AppInsight)
  \/ \E inv \in inflight : EstimatorUnparseable(inv)
  \/ \E inv \in inflight : EstimatorRejected(inv)

SpecIntake == IntakeInit /\ [][IntakeNext]_vars

\* Invocation gen's estimator call settles: it resolves with a response,
\* resolves unparseably, or rejects.
Settle(gen) ==
  \E inv \in inflight :
    /\ inv.gen = gen
    /\ \/ \E covered \in SUBSET IdSet(inv.orderedStops) :
            EstimatorResolved(inv, covered, AppInsight)
       \/ EstimatorUnparseable(inv)
       \/ EstimatorRejected(inv)

\* Spec under the assumption that every estimator call eventually settles.
SpecLive == Spec /\ \A gen \in 1..MaxRuns : WF_vars(Settle(gen))

SeqInit ==
  /\ MergeIdle /\ AppIdle /\ StatIdle
  /\ start \in Starts
  /\ \E n \in 0..MaxStops : \E f \in [1..n -> Priorities \X Points] :
       \E a \in {NoInsight, AppInsight} : input = SeqInputAnnotated(n, f, a)
  /\ unvisited = <<>> /\ route = <<>> /\ currentPos = start
  /\ seqPc = "start" /\ lastPick = NoPick

SeqNext ==
  \/ SeqEmpty
  \/ SeqBegin
  \/ SeqStep
  \/ SeqReturn

SpecSeq == SeqInit /\ [][SeqNext]_vars

\* optimizeRoute is synchronous: once called it keeps running.
SpecSeqLive == SpecSeq /\ WF_vars(SeqNext)

MergeInit ==
  /\ SeqIdle /\ AppIdle /\ StatIdle
  /\ \E n \in 0..MaxStops : \E f \in [1..n -> Insights \cup {NoInsight}] :
       mStops = MergeStops(n, f)
  /\ \E n \in 0..MaxEtas : mEtas \in [1..n -> EtaEntries]
  /\ mOut = <<>> /\ mOut2 = <<>> /\ mPc = "start"

MergeNext ==
  \/ MergeOnce
  \/ MergeAgain

SpecMerge == MergeInit /\ [][MergeNext]_vars

\* Arrival times a parsed estimator response may carry, with the hour (24 h)
\* and minute they denote.
ValidEtas ==
  {[text |-> "09:45 AM", h |-> 9, m |-> 45],
   [text |-> "10:30 AM", h |-> 10, m |-> 30],
   [text |-> "11:30 AM", h |-> 11, m |-> 30],
   [text |-> "12:15 AM", h |-> 0, m |-> 15],
   [text |-> "12:15 PM", h |-> 12, m |-> 15],
   [text |-> "1:05 PM", h |-> 13, m |-> 5],
   [text |-> "08:15 AM", h |-> 8, m |-> 15]}

\* Arrival times that are no 12-hour clock strings: analyzeRoute's own
\* fallback, a missing AM/PM suffix, no number at all.
InvalidEtas == {"~10:00 AM", "10:30", "soon"}

LastEtas == {e.text : e \in ValidEtas} \cup InvalidEtas \cup {None}

EarlierEtas == {None, "09:45 AM"}

\* Clock readings of new Date().
Readings == {[h |-> 9, m |-> 5], [h |-> 0, m |-> 30], [h |-> 13, m |-> 0]}

\* useSystemTime, lastUpdated and the clock.
TimeSettings ==
  ({FALSE} \X {None, "Date"} \X {Midnight})
    \cup ({TRUE} \X {None} \X {Midnight})
    \cup ({TRUE} \X {"Date"} \X Readings)

StatStops(n, c, e, last) ==
  [i \in 1..n |->
     [NewStop(i, "medium", c[i]) EXCEPT
        !.estimatedTime = IF i = n THEN last ELSE e[i],
        !.trafficCondition = IF (IF i = n THEN last ELSE e[i]) = None
                             THEN None ELSE "light"]]

StatInit ==
  /\ SeqIdle /\ MergeIdle
  /\ aiSummary = None /\ isOptimizing = FALSE
  /\ draggedIndex = 0 /\ adding = NoAdd
  /\ locating = NoLocate /\ inflight = {}
  /\ nAdds = 0 /\ nRuns = 0 /\ lastEvent = "none" /\ lastDone = NoDone
  /\ newestGen = 0 /\ newestStops = <<>>
  /\ depotLocation = DEFAULT_LOCATION
  /\ \E n \in 0..MaxStops : \E c \in [1..n -> Points] :
       \E e \in [1..(n - 1) -> EarlierEtas] : \E last \in LastEtas :
         stops = StatStops(n, c, e, last)
  /\ \E t \in TimeSettings :
       useSystemTime = t[1] /\ lastUpdated = t[2] /\ now = t[3]
  /\ stats = NoStats /\ statPc = "start"
  /\ ParseIdle

StatNext ==
  \/ StatsRender

SpecStats == StatInit /\ [][StatNext]_vars

\* Every valid 12-hour clock string, with and without a leading zero.
ParseInit ==
  /\ SeqIdle /\ MergeIdle /\ AppIdle
  /\ useSystemTime = FALSE /\ now = Midnight /\ stats = NoStats /\ statPc = "off"
  /\ \E h \in 1..12 : \E m \in 0..59 : \E pm \in BOOLEAN : \E padded \in BOOLEAN :
       clock = [h |-> h, m |-> m, pm |-> pm, padded |-> padded]
  /\ parsedMinutes = NaN /\ parsePc = "start"

ParseNext ==
  \/ ParseCall

SpecParse == ParseInit /\ [][ParseNext]_vars

\* ======================================================================
\* Properties
\* ======================================================================
Unannotated(stop) == stop.estimatedTime = None /\ stop.trafficCondition = None

\* ---- Sequencer (SpecSeq)

\* C1: the Sequencer's output is a permutation of its input: the same length
\* and every input identity exactly once; the empty list gives the empty
\* sequence and a single stop gives that stop.
C1_SequencerPermutes ==
  seqPc = "done" =>
    /\ Len(route) = Len(input)
    /\ \A id \in IdSet(input) :
         Cardinality({i \in 1..Len(route) : route[i].id = id}) = 1
    /\ IdSet(route) = IdSet(input)
    /\ (Len(input) = 0 => route = <<>>)
    /\ (Len(input) = 1 => route = input)

C1_Witness ==
  /\ seqPc = "done" /\ Len(input) >= 3
  /\ Ids(route) # Ids(input)

\* C3: at every step the stop selected has a minimal weighted distance from
\* the current position over all stops of the pool, each stop (the first one
\* of the pool included) weighted by its own priority factor.
C3_SelectsWeightedMinimum ==
  lastPick.index # 0 =>
    \A j \in 1..Len(lastPick.pool) :
      weightedDist(lastPick.pos, lastPick.pool[lastPick.index])
        <= weightedDist(lastPick.pos, lastPick.pool[j])

\* Two stops, one high and one low, at the same distance from the origin.
EquidistantHighLow ==
  /\ Len(input) = 2
  /\ {input[1].priority, input[2].priority} = {"high", "low"}
  /\ calculateDistanceSq(start, input[1].coords)
       = calculateDistanceSq(start, input[2].coords)

\* C10 as stated: of two stops equidistant from the origin, one high and one
\* low, the high-priority stop is selected first, whichever comes first.
C10_HighFirstWhenEquidistant ==
  (seqPc = "done" /\ EquidistantHighLow) => route[1].priority = "high"

\* C10 amended: the same for two stops at the same non-zero distance from
\* the origin.
C10_HighFirstWhenEquidistantApart ==
  (/\ seqPc = "done" /\ EquidistantHighLow
   /\ calculateDistanceSq(start, input[1].coords) > 0)
    => route[1].priority = "high"

C10_Witness ==
  /\ seqPc = "done" /\ EquidistantHighLow
  /\ calculateDistanceSq(start, input[1].coords) > 0
  /\ input[1].priority = "low" /\ input[1].coords # input[2].coords
  /\ route[1] = input[2]

\* Three stops of one priority whose distances from the origin all differ.
SamePriorityIncreasing ==
  /\ Len(input) = 3
  /\ \A i \in 1..3 : input[i].priority = input[1].priority
  /\ \A i, j \in 1..3 :
       i # j => calculateDistanceSq(start, input[i].coords)
                  # calculateDistanceSq(start, input[j].coords)

\* C11: three stops of one priority at strictly increasing distance from the
\* origin come out in increasing-distance order, whatever the pool order.
C11_EqualPriorityDistanceOrder ==
  (seqPc = "done" /\ SamePriorityIncreasing) =>
    \A i \in 1..2 :
      calculateDistanceSq(start, route[i].coords)
        < calculateDistanceSq(start, route[i + 1].coords)

\* C20, Sequencer part: sequencing the Sequencer's own output from the same
\* origin returns that output.
C20_SequencerIdempotent ==
  seqPc = "done" => optimizeRoute(start, route) = route

\* The pool positions whose weighted distance from pos is the minimum.
MinimalIn(pos, pool) ==
  {j \in 1..Len(pool) :
     \A i \in 1..Len(pool) : weightedDist(pos, pool[j]) <= weightedDist(pos, pool[i])}

\* C22: when several stops of the pool share the minimum weighted distance
\* in a step, the one that comes first in the pool is selected.
C22_TieFirstInPool ==
  lastPick.index # 0 =>
    LET tied == MinimalIn(lastPick.pos, lastPick.pool)
    IN Cardinality(tied) >= 2 =>
         /\ lastPick.index \in tied
         /\ \A j \in tied : lastPick.index <= j

\* C26: the Sequencer terminates on every input; each iteration of its outer
\* loop removes exactly one stop from the pool and appends exactly one to
\* the output, so that it returns after exactly n selections for n stops.
C26_SequencerTerminates ==
  /\ [][(seqPc = "loop" /\ seqPc' = "loop") =>
          /\ Len(unvisited') = Len(unvisited) - 1
          /\ Len(route') = Len(route) + 1]_vars
  /\ [](seqPc = "done" => (Len(route) = Len(input) /\ Len(unvisited) = 0))
  /\ <>(seqPc = "done")

C26_Witness ==
  /\ seqPc = "done" /\ Len(route) = MaxStops /\ lastPick.index # 0

\* C29: the Sequencer leaves its input unchanged, in length, order and
\* elements, and every stop of the output has the fields, annotations
\* included, of the input stop with its identity.
C29_InputUnchanged ==
  /\ [][input' = input]_vars
  /\ [](\A i \in 1..Len(route) :
          \E j \in 1..Len(input) :
            route[i].id = input[j].id /\ route[i] = input[j])

C29_Witness ==
  /\ seqPc = "done" /\ Len(input) >= 2 /\ route # input
  /\ \E i \in 1..Len(route) : route[i].estimatedTime # None

\* ---- Annotation Merge (SpecMerge)
HasEntry(etas, id) == \E j \in 1..Len(etas) : etas[j].id = id

\* C7: the merge changes neither the length, nor the order, nor the identity
\* set of the sequence; only estimatedTime and trafficCondition may differ.
C7_MergeKeepsSequence ==
  mPc \in {"merged", "again"} =>
    /\ Len(mOut) = Len(mStops)
    /\ \A i \in 1..Len(mStops) :
         /\ mOut[i].id = mStops[i].id
         /\ mOut[i].priority = mStops[i].priority
         /\ mOut[i].coords = mStops[i].coords

\* A partial annotation list with an id no stop has, merged into a sequence
\* it changes.
C7_Witness ==
  /\ mPc = "merged" /\ Len(mStops) >= 2 /\ mOut # mStops
  /\ \E j \in 1..Len(mEtas) : mEtas[j].id \notin IdSet(mStops)
  /\ \E i \in 1..Len(mStops) : ~HasEntry(mEtas, mStops[i].id)
  /\ \E i \in 1..Len(mStops) : HasEntry(mEtas, mStops[i].id)

\* C8 as stated: a stop with no entry keeps both fields as they were; a stop
\* with an entry gets an entry's eta and traffic.
C8_AbsentKeepsFields ==
  mPc \in {"merged", "again"} =>
    \A i \in 1..Len(mStops) :
      IF HasEntry(mEtas, mStops[i].id)
      THEN \E j \in 1..Len(mEtas) :
             /\ mEtas[j].id = mStops[i].id
             /\ mOut[i].estimatedTime = mEtas[j].eta
             /\ mOut[i].trafficCondition = mEtas[j].traffic
      ELSE /\ mOut[i].estimatedTime = mStops[i].estimatedTime
           /\ mOut[i].trafficCondition = mStops[i].trafficCondition

\* C8 amended: a stop with no entry has both fields absent after the merge,
\* whatever they were; a stop with an entry gets the eta and traffic of the
\* first entry with its identity.
C8_AbsentClearsFields ==
  mPc \in {"merged", "again"} =>
    \A i \in 1..Len(mStops) :
      IF HasEntry(mEtas, mStops[i].id)
      THEN \E j \in 1..Len(mEtas) :
             /\ mEtas[j].id = mStops[i].id
             /\ \A k \in 1..(j - 1) : mEtas[k].id # mStops[i].id
             /\ mOut[i].estimatedTime = mEtas[j].eta
             /\ mOut[i].trafficCondition = mEtas[j].traffic
      ELSE Unannotated(mOut[i])

\* A stop annotated earlier and missing from the list, beside a stop the
\* list names twice with different values.
C8_Witness ==
  /\ mPc = "merged"
  /\ \E j, k \in 1..Len(mEtas) :
       j < k /\ mEtas[j].id = mEtas[k].id /\ mEtas[j].eta # mEtas[k].eta
  /\ \E i \in 1..Len(mStops) :
       /\ ~HasEntry(mEtas, mStops[i].id)
       /\ mStops[i].estimatedTime # None /\ Unannotated(mOut[i])
  /\ \E i \in 1..Len(mStops) :
       /\ HasEntry(mEtas, mStops[i].id)
       /\ mOut[i].estimatedTime # mStops[i].estimatedTime

\* C9: merging the same annotation list into the result of a merge gives
\* that result again.
C9_MergeIdempotent ==
  mPc = "again" => mOut2 = mOut

C9_Witness ==
  /\ mPc = "again" /\ Len(mStops) >= 2 /\ mOut # mStops
  /\ \E i \in 1..Len(mStops) : ~Unannotated(mOut[i])
  /\ \E i \in 1..Len(mStops) :
       mStops[i].estimatedTime # None /\ Unannotated(mOut[i])

\* ---- Orchestrator (Spec)
FailedRunJustCompleted == lastEvent = "complete" /\ lastDone.outcome = "failed"

\* C2: a result that is not the latest is discarded: right after any
\* invocation completes, the visible stop list is the one produced by the
\* latest-issued invocation among those that have completed.
C2_StaleResultDiscarded ==
  lastEvent = "complete" => stops = newestStops

C5_FailureClearsAnnotations ==
  FailedRunJustCompleted => \A i \in 1..Len(stops) : Unannotated(stops[i])

\* C6: after a failed estimator call no summary is visible.
C6_FailureClearsSummary ==
  FailedRunJustCompleted => aiSummary = None

\* The sequence an invocation hands to the estimator when it re-runs the
\* Sequencer on its target.
Resequenced(inv) == optimizeRoute(inv.targetDepot, inv.targetStops)

\* C16: every mutation of the stop set and every change of depot starts a
\* recompute that re-runs the Sequencer before it calls the estimator; only
\* the recompute of a drag-and-drop reorder skips the Sequencer.
C16_MutationsResequence ==
  /\ \A inv \in inflight :
       inv.trigger # "drop" => inv.orderedStops = Resequenced(inv)
  /\ (lastEvent = "remove" /\ Len(stops) > 0) =>
       \E inv \in inflight : inv.targetStops = stops

\* The sequence the invocation that completed last handed to the estimator.
LastOrdered ==
  IF lastDone.manual THEN lastDone.targetStops
  ELSE optimizeRoute(lastDone.targetDepot, lastDone.targetStops)

\* C17: a failure of the estimator, a network error as well as a malformed or
\* unparseable response, is treated as "no annotations": the stops carry no
\* arrival time or traffic condition supplied for that round, and the round
\* sets no summary (there is none after the failure of the only round so far).
C17_FailureMeansNoAnnotations ==
  (lastEvent = "complete" /\ lastDone.outcome \in {"failed", "malformed"}) =>
    /\ stops = LastOrdered
    /\ nRuns = 1 => aiSummary = None

\* C18: the recompute of a manual reorder shows exactly the order the
\* caller supplied, merged with the estimator's annotations on success and
\* un-annotated on failure.
C18_ManualOrderKept ==
  (lastEvent = "complete" /\ lastDone.trigger = "drop") =>
    /\ Ids(stops) = Ids(lastDone.targetStops)
    /\ lastDone.outcome = "ok" =>
         \E covered \in SUBSET IdSet(lastDone.targetStops) :
           stops = mergeInsights(lastDone.targetStops,
                                 replyEtas(lastDone.targetStops, covered, AppInsight))
    /\ lastDone.outcome = "failed" =>
         \A i \in 1..Len(stops) : Unannotated(stops[i])

\* An invocation passes from Idle through Sequencing to Estimating: it is
\* put in flight with its sequence fixed and the in-progress flag set.
StartStep ==
  \A inv \in inflight' \ inflight :
    /\ isOptimizing'
    /\ Len(inv.targetStops) > 0
    /\ Ids(inv.orderedStops) \in {Ids(inv.targetStops), Ids(Resequenced(inv))}

\* An invocation leaves Estimating for Done, through Merging exactly when
\* the estimator answered.
DoneStep ==
  \A inv \in inflight \ inflight' :
    /\ ~isOptimizing'
    /\ lastDone'.gen = inv.gen
    /\ \/ /\ lastDone'.outcome \in {"ok", "malformed"}
          /\ Ids(stops') = Ids(inv.orderedStops)
          /\ aiSummary' = Summary /\ lastUpdated' = "Date"
       \/ /\ lastDone'.outcome = "failed"
          /\ stops' = inv.orderedStops
          /\ UNCHANGED <<aiSummary, lastUpdated>>

InFlight(gen) == \E inv \in inflight : inv.gen = gen

\* C19: an invocation on a non-empty stop set goes Idle, Sequencing,
\* Estimating, Merging, Done when the estimator answers and skips Merging
\* when it fails; if the estimator call settles, the invocation reaches Done
\* (no invocation stays in flight for ever, and generations are not reused),
\* and the step that takes it there clears the in-progress flag.
C19_InvocationReachesDone ==
  /\ [][StartStep /\ DoneStep]_vars
  /\ \A gen \in 1..MaxRuns : []<>(~InFlight(gen))

C19_Witness ==
  /\ lastEvent = "complete" /\ lastDone.gen = MaxRuns /\ ~isOptimizing
  /\ lastDone.outcome = "failed" /\ inflight = {}

\* C23: there is no retry.  An estimator call is the one call of a new
\* invocation, and the step that completes an invocation, by failure as by
\* success, leaves none of its calls in flight; after a failure the fallback
\* sequence is shown at once.
C23_NoRetry ==
  [][/\ \A inv \in inflight' \ inflight :
          inv.gen = nRuns + 1 /\ nRuns' = nRuns + 1
     /\ Cardinality(inflight' \ inflight) <= 1
     /\ \A inv \in inflight :
          lastDone'.gen = inv.gen =>
            /\ \A other \in inflight' : other.gen # inv.gen
            /\ lastDone'.outcome = "failed" => stops' = inv.orderedStops]_vars

C23_Witness ==
  /\ lastEvent = "complete" /\ lastDone.outcome = "failed"
  /\ lastDone.gen = 1 /\ nRuns = 1 /\ inflight = {}
  /\ stops = LastOrdered

\* C27: while an invocation is awaiting the estimator the in-progress flag
\* is true; completion of one of two overlapping invocations does not clear
\* it.
C27_FlagWhileInFlight == inflight # {} => isOptimizing

\* C28: the completion of an invocation does not change the identity set of
\* the visible list as it stands then: no stop removed meanwhile comes back,
\* no stop added meanwhile is dropped.
C28_CompletionKeepsIdentities ==
  [][(\E inv \in inflight : inv \notin inflight') =>
       IdSet(stops') = IdSet(stops)]_vars

\* ---- runOptimization on its own (SpecRun)
\* C30: a recompute on an empty stop set is a no-op: no estimator call, the
\* in-progress flag not set, the stop list, the summary and the last-updated
\* marker as they were.
C30_EmptyRecomputeNoOp ==
  [][(lastEvent' = "call" /\ lastEvent # "call" /\ Len(stops) = 0) =>
       /\ inflight' = inflight /\ nRuns' = nRuns
       /\ isOptimizing' = isOptimizing
       /\ stops' = stops /\ aiSummary' = aiSummary
       /\ lastUpdated' = lastUpdated]_vars

C30_Witness ==
  /\ lastEvent = "call" /\ Len(stops) = 0 /\ nRuns = 0
  /\ ~isOptimizing /\ inflight = {}
  /\ aiSummary = Summary /\ lastUpdated = "Date"

\* ---- Where stops come from (SpecIntake)
FiniteCoords(list) ==
  \A i \in 1..Len(list) : isFinite(list[i].coords.lat) /\ isFinite(list[i].coords.lng)

\* C21: a stop with a non-finite latitude or longitude is rejected when it
\* is constructed: none is in the stop list, and none is in a list handed
\* to the Sequencer, from whichever source the stop came.
C21_MalformedRejected ==
  /\ FiniteCoords(stops)
  /\ \A inv \in inflight : ~inv.manual => FiniteCoords(inv.targetStops)

\* ---- Metrics (SpecStats)
\* The minutes since midnight of the start time routeStats uses.
StartMinutes ==
  IF useSystemTime /\ lastUpdated # None THEN now.h * 60 + now.m ELSE 9 * 60

LastEta == stops[Len(stops)].estimatedTime

\* The legs of the route from the depot, as squared lengths.
Legs ==
  [i \in 1..Len(stops) |->
     calculateDistanceSq(IF i = 1 THEN depotLocation ELSE stops[i - 1].coords,
                         stops[i].coords)]

\* C12: on an empty sequence the metrics are zero distance and the
\* unavailable duration, the placeholder of a missing arrival time.
C12_EmptyUnavailable ==
  (statPc = "done" /\ Len(stops) = 0) =>
    stats.distance = <<>> /\ stats.duration = Unavailable

\* C13: for a valid 12-hour start time and last-stop arrival time, the
\* arrival not earlier than the start, the duration is h = diff div 60 hours
\* and m = diff mod 60 minutes; 09:00 AM to 11:30 AM gives 2h 30m.
C13_DurationHoursMinutes ==
  (statPc = "done" /\ Len(stops) > 0) =>
    \A e \in ValidEtas :
      (LastEta = e.text /\ e.h * 60 + e.m >= StartMinutes) =>
        stats.duration =
          HoursMinutes(Num((e.h * 60 + e.m - StartMinutes) \div 60),
                       Num((e.h * 60 + e.m - StartMinutes) % 60))

C13_Witness ==
  /\ statPc = "done" /\ Len(stops) > 0
  /\ LastEta = "11:30 AM" /\ ~useSystemTime
  /\ stats.duration = HoursMinutes(Num(2), Num(30))

\* C14: a last-stop arrival time that is present but cannot be parsed gives
\* the unavailable duration, never a numeric or NaN-bearing one.
C14_UnparseableUnavailable ==
  (statPc = "done" /\ Len(stops) > 0 /\ LastEta \in InvalidEtas) =>
    stats.duration = Unavailable

\* C15: when the last stop of a non-empty sequence has no arrival time the
\* duration is unavailable and the distance is the computed total, whatever
\* arrival times the earlier stops carry.
C15_NoLastEtaUnavailable ==
  (statPc = "done" /\ Len(stops) > 0 /\ LastEta = None) =>
    stats.duration = Unavailable /\ stats.distance = Legs

C15_Witness ==
  /\ statPc = "done" /\ Len(stops) >= 2 /\ LastEta = None
  /\ stops[1].estimatedTime # None
  /\ stats.duration = Unavailable
  /\ \E i \in 1..Len(stops) : stats.distance[i] > 0

\* C24: when the last stop's arrival time is earlier than the start time the
\* duration is the raw negative difference, neither clamped to zero nor
\* wrapped by 24 hours: its parts satisfy h * 60 + m = eta - start.
C24_NegativePassedThrough ==
  (statPc = "done" /\ Len(stops) > 0) =>
    \A e \in ValidEtas :
      (LastEta = e.text /\ e.h * 60 + e.m < StartMinutes) =>
        /\ ~stats.duration.h.nan /\ ~stats.duration.m.nan
        /\ stats.duration.h.v * 60 + stats.duration.m.v
             = e.h * 60 + e.m - StartMinutes

\* ---- parseTime (SpecParse)
\* C25: the parser maps every valid 12-hour clock string H:MM AM|PM to the
\* minutes since midnight, in 0..1439: 12:MM AM to MM, H:MM AM to 60 H + MM,
\* 12:MM PM to 720 + MM, H:MM PM to 60 (H + 12) + MM.
C25_ParseTimeMinutes ==
  parsePc = "done" =>
    /\ ~parsedMinutes.nan /\ parsedMinutes.v \in 0..1439
    /\ parsedMinutes.v =
         IF ~clock.pm /\ clock.h = 12 THEN clock.m
         ELSE IF ~clock.pm THEN 60 * clock.h + clock.m
         ELSE IF clock.h = 12 THEN 720 + clock.m
         ELSE 60 * (clock.h + 12) + clock.m

C25_Witness ==
  /\ parsePc = "done" /\ clock.pm /\ clock.h = 11 /\ clock.m = 59
  /\ ~clock.padded /\ parsedMinutes = Num(1439)
====
